---- MODULE Spec2Model ----
(***************************************************************************)
(* Light Docker API: the request validator (app/security.py), the          *)
(* ownership tagger and guard (app/docker_client.py) and the container     *)
(* routes (app/routes/containers.py).                                      *)
(*                                                                         *)
(* Python strings that the code takes apart (startswith, upper) are        *)
(* sequences of one-character strings; a filesystem path is the sequence   *)
(* of its components below the root; a dict is a function whose DOMAIN is  *)
(* its key set; an Optional value is a record whose `none` field tells     *)
(* None from a value.                                                      *)
(***************************************************************************)
EXTENDS Integers, Sequences, FiniteSets, TLC

VARIABLES settings, call, ret, containers, reqs

vars == <<settings, call, ret, containers, reqs>>

(***************************************************************************)
(* Bounds of the model.                                                    *)
(***************************************************************************)
MaxImageLen == 3
MaxPathLen == 2
MaxVolumes == 2
MaxCapLen == 2
MaxCaps == 2

SeqsUpTo(S, n) == UNION {[1..k -> S] : k \in 0..n}

NonEmptySeqsUpTo(S, n) == UNION {[1..k -> S] : k \in 1..n}

Range(s) == {s[i] : i \in DOMAIN s}

NoDup(s) == \A i, j \in DOMAIN s : i # j => s[i] # s[j]

(***************************************************************************)
(* app/config.py: label keys and the instance identity.                    *)
(***************************************************************************)
label_prefix == "light-docker-api"

MANAGED_LABEL == label_prefix \o ".managed"

INSTANCE_LABEL == label_prefix \o ".instance"

InstanceIds == {"inst-a", "inst-b"}

(***************************************************************************)
(* Label maps: an Optional[Dict[str, str]].  [none |-> TRUE] is Python's   *)
(* None; otherwise d is the dict.                                          *)
(***************************************************************************)
LabelKeys == {MANAGED_LABEL, INSTANCE_LABEL, "app"}

LabelValues(k) ==
    IF k = MANAGED_LABEL THEN {"true", "True", "false", "1"}
    ELSE IF k = INSTANCE_LABEL THEN InstanceIds \cup {"intruder"}
    ELSE {"web"}

AllLabelValues == UNION {LabelValues(k) : k \in LabelKeys}

Dicts == UNION {{d \in [ks -> AllLabelValues] : \A k \in ks : d[k] \in LabelValues(k)} :
                ks \in SUBSET LabelKeys}

EmptyDict == [k \in {} |-> ""]

NoneLabels == [none |-> TRUE, d |-> EmptyDict]

SomeLabels(d) == [none |-> FALSE, d |-> d]

OptLabelMaps == {NoneLabels} \cup {SomeLabels(d) : d \in Dicts}

\* Python truthiness of an Optional[Dict]: None and {} are falsy.
TruthyLabels(l) == ~l.none /\ DOMAIN l.d # {}

\* dict.update: the argument's entries win over the receiver's.
DictUpdate(base, upd) ==
    [k \in DOMAIN base \cup DOMAIN upd |-> IF k \in DOMAIN upd THEN upd[k] ELSE base[k]]

\* dict.get(key) with its default None, told apart by the `has` tag.
DictGet(d, k) == IF k \in DOMAIN d THEN [has |-> TRUE, v |-> d[k]] ELSE [has |-> FALSE, v |-> ""]

(***************************************************************************)
(* DockerManager._get_managed_labels, as get_managed_labels               *)
(***************************************************************************)
get_managed_labels(instance_id, extra_labels) ==
    LET labels == (MANAGED_LABEL :> "true") @@ (INSTANCE_LABEL :> instance_id)
    IN  IF TruthyLabels(extra_labels) THEN DictUpdate(labels, extra_labels.d) ELSE labels

(***************************************************************************)
(* DockerManager.is_managed: container.labels or {} ; .get(MANAGED_LABEL)  *)
(* == "true"                                                               *)
(***************************************************************************)
is_managed_any_value(container_labels) ==
    LET labels == IF TruthyLabels(container_labels) THEN container_labels.d ELSE EmptyDict
    IN  DictGet(labels, MANAGED_LABEL).has

is_managed(container_labels) ==
    LET labels == IF TruthyLabels(container_labels) THEN container_labels.d ELSE EmptyDict
        got == DictGet(labels, MANAGED_LABEL)
    IN  got.has /\ got.v = "true"

(***************************************************************************)
(* Strings the code takes apart, as sequences of characters.               *)
(***************************************************************************)
startswith(s, prefix) ==
    Len(s) >= Len(prefix) /\ SubSeq(s, 1, Len(prefix)) = prefix

UpperChar(c) ==
    CASE c = "n" -> "N"
      [] c = "a" -> "A"
      [] c = "s" -> "S"
      [] OTHER -> c

upper(s) == [i \in DOMAIN s |-> UpperChar(s[i])]

(***************************************************************************)
(* SecurityValidationError: a validator either returns (raised = FALSE) or *)
(* raises with HTTP 400 and a message; arg is the value the f-string puts  *)
(* into the message.                                                       *)
(***************************************************************************)
HTTP_400_BAD_REQUEST == 400

Returned == [raised |-> FALSE, status |-> 200, msg |-> "", arg |-> <<>>]

SecurityValidationError(message, arg) ==
    [raised |-> TRUE, status |-> HTTP_400_BAD_REQUEST, msg |-> message, arg |-> arg]

\* Statement sequencing: an exception of the first statement skips the second.
Then(first, second) == IF first.raised THEN first ELSE second

MsgImage == "Image is not in the allowed images list"

MsgVolume == "Volume mount is not allowed"

MsgPrivileged == "Privileged mode is not allowed"

MsgNetwork == "Network mode 'host' is not allowed"

MsgPid == "PID mode 'host' is not allowed"

MsgIpc == "IPC mode 'host' is not allowed"

MsgDevices == "Device mappings are not allowed"

MsgSecurityOpt == "Security options are not allowed"

MsgSysctls == "Sysctl settings are not allowed"

MsgCapsNone == "Adding capabilities is not allowed"

MsgCap == "Capability is not allowed"

(***************************************************************************)
(* validate_image                                                          *)
(***************************************************************************)
RECURSIVE image_matches_from(_, _, _)
image_matches_from(image, allowed_images, i) ==
    IF i > Len(allowed_images) THEN FALSE
    ELSE LET allowed == allowed_images[i]
         IN  IF image = allowed \/ startswith(image, allowed \o <<":">>)
             THEN TRUE
             ELSE image_matches_from(image, allowed_images, i + 1)

validate_image_bare_prefix(allowed_images, image) ==
    IF allowed_images = <<>> THEN Returned
    ELSE IF \E i \in DOMAIN allowed_images : startswith(image, allowed_images[i])
         THEN Returned
         ELSE SecurityValidationError(MsgImage, image)

validate_image(allowed_images, image) ==
    IF allowed_images = <<>> THEN Returned
    ELSE IF image_matches_from(image, allowed_images, 1) THEN Returned
         ELSE SecurityValidationError(MsgImage, image)

(***************************************************************************)
(* Path(host_path).resolve(): host paths are absolute; "." is dropped and  *)
(* ".." leaves a directory (and stays at the root).  The filesystem of the *)
(* model holds no symbolic links.                                          *)
(***************************************************************************)
RECURSIVE resolve_from(_, _, _)
resolve_from(parts, i, acc) ==
    IF i > Len(parts) THEN acc
    ELSE IF parts[i] = "." THEN resolve_from(parts, i + 1, acc)
    ELSE IF parts[i] = ".."
         THEN resolve_from(parts, i + 1,
                           IF acc = <<>> THEN acc ELSE SubSeq(acc, 1, Len(acc) - 1))
         ELSE resolve_from(parts, i + 1, Append(acc, parts[i]))

resolve(path) == resolve_from(path, 1, <<>>)

\* PurePath.relative_to(other) returns iff other is self or an ancestor of
\* self, and raises ValueError otherwise.
relative_to_returns(self, other) ==
    Len(self) >= Len(other) /\ SubSeq(self, 1, Len(other)) = other

(***************************************************************************)
(* validate_volume_path.  The three rejections differ only in the suffix   *)
(* of the message; which blocked path is met first depends on the set's    *)
(* iteration order, so the message is kept to its common part.             *)
(***************************************************************************)
blocked_hit_one_way(normalized, blocked_path) ==
    \/ normalized = blocked_path
    \/ relative_to_returns(normalized, blocked_path)

blocked_hit(normalized, blocked_path) ==
    \/ normalized = blocked_path
    \/ relative_to_returns(normalized, blocked_path)
    \/ relative_to_returns(blocked_path, normalized)

validate_volume_path(blocked_volume_paths, host_path) ==
    LET normalized == resolve(host_path)
    IN  IF \E blocked \in blocked_volume_paths : blocked_hit(normalized, resolve(blocked))
        THEN SecurityValidationError(MsgVolume, host_path)
        ELSE Returned

(***************************************************************************)
(* validate_volumes: volumes is [none, l], l the dict's keys in insertion  *)
(* order.                                                                  *)
(***************************************************************************)
RECURSIVE validate_volumes_from(_, _, _)
validate_volumes_from(blocked_volume_paths, keys, i) ==
    IF i > Len(keys) THEN Returned
    ELSE Then(validate_volume_path(blocked_volume_paths, keys[i]),
              validate_volumes_from(blocked_volume_paths, keys, i + 1))

validate_volumes(blocked_volume_paths, volumes) ==
    IF volumes.none \/ volumes.l = <<>> THEN Returned
    ELSE validate_volumes_from(blocked_volume_paths, volumes.l, 1)

(***************************************************************************)
(* validate_capabilities: cap_add is an Optional[List[str]], [none, l].    *)
(***************************************************************************)
RECURSIVE validate_caps_from(_, _, _)
validate_caps_from(allowed_capabilities, cap_add, i) ==
    IF i > Len(cap_add) THEN Returned
    ELSE IF upper(cap_add[i]) \notin allowed_capabilities
         THEN SecurityValidationError(MsgCap, cap_add[i])
         ELSE validate_caps_from(allowed_capabilities, cap_add, i + 1)

validate_capabilities_no_upper(allowed_capabilities, cap_add) ==
    IF cap_add.none \/ cap_add.l = <<>> THEN Returned
    ELSE IF allowed_capabilities = {} THEN SecurityValidationError(MsgCapsNone, <<>>)
    ELSE IF \E i \in DOMAIN cap_add.l : cap_add.l[i] \notin allowed_capabilities
         THEN SecurityValidationError(MsgCap, <<>>)
         ELSE Returned

validate_capabilities(allowed_capabilities, cap_add) ==
    IF cap_add.none \/ cap_add.l = <<>> THEN Returned
    ELSE IF allowed_capabilities = {} THEN SecurityValidationError(MsgCapsNone, <<>>)
    ELSE validate_caps_from(allowed_capabilities, cap_add.l, 1)

(***************************************************************************)
(* Values of the raw payload (JSON).  t is the Python type; b, s and l     *)
(* hold a bool, a str and the elements of a list (or the keys of a dict).  *)
(***************************************************************************)
JBool(b) == [t |-> "bool", b |-> b, s |-> <<>>, l |-> <<>>]

JStr(s) == [t |-> "str", b |-> FALSE, s |-> s, l |-> <<>>]

JList(l) == [t |-> "list", b |-> FALSE, s |-> <<>>, l |-> l]

JDict(keys) == [t |-> "dict", b |-> FALSE, s |-> <<>>, l |-> keys]

\* bool(value)
Truthy(value) ==
    CASE value.t = "bool" -> value.b
      [] value.t = "str" -> value.s # <<>>
      [] OTHER -> value.l # <<>>

\* value is True
IsTrue(value) == value.t = "bool" /\ value.b

\* value == "host"
Host == <<"h", "o", "s", "t">>

EqHost(value) == value.t = "str" /\ value.s = Host

(***************************************************************************)
(* check_dangerous_options: the loop runs over dangerous_options.items(),  *)
(* a dict literal, hence in the order its keys are written.                *)
(***************************************************************************)
dangerous_options_caps_last ==
    <<"privileged", "network_mode", "pid_mode", "ipc_mode",
      "devices", "security_opt", "sysctls", "cap_add">>

dangerous_options ==
    <<"privileged", "network_mode", "pid_mode", "ipc_mode",
      "cap_add", "devices", "security_opt", "sysctls">>

check_option_host_only(allowed_capabilities, option, value) ==
    IF option = "network_mode" /\ EqHost(value)
    THEN SecurityValidationError(MsgNetwork, <<>>)
    ELSE IF option = "pid_mode" /\ EqHost(value)
    THEN SecurityValidationError(MsgPid, <<>>)
    ELSE IF option = "ipc_mode" /\ EqHost(value)
    THEN SecurityValidationError(MsgIpc, <<>>)
    ELSE IF option = "cap_add" /\ Truthy(value)
    THEN validate_capabilities(allowed_capabilities, [none |-> FALSE, l |-> value.l])
    ELSE Returned

\* The body of the loop for one option present in raw_data.
check_option(allowed_capabilities, option, value) ==
    IF option = "privileged" /\ IsTrue(value)
    THEN SecurityValidationError(MsgPrivileged, <<>>)
    ELSE IF option = "network_mode" /\ EqHost(value)
    THEN SecurityValidationError(MsgNetwork, <<>>)
    ELSE IF option = "pid_mode" /\ EqHost(value)
    THEN SecurityValidationError(MsgPid, <<>>)
    ELSE IF option = "ipc_mode" /\ EqHost(value)
    THEN SecurityValidationError(MsgIpc, <<>>)
    ELSE IF option = "devices" /\ Truthy(value)
    THEN SecurityValidationError(MsgDevices, <<>>)
    ELSE IF option = "security_opt" /\ Truthy(value)
    THEN SecurityValidationError(MsgSecurityOpt, <<>>)
    ELSE IF option = "sysctls" /\ Truthy(value)
    THEN SecurityValidationError(MsgSysctls, <<>>)
    ELSE IF option = "cap_add" /\ Truthy(value)
    THEN validate_capabilities(allowed_capabilities, [none |-> FALSE, l |-> value.l])
    ELSE Returned

RECURSIVE check_options_from(_, _, _, _)
check_options_from(allowed_capabilities, order, raw_data, i) ==
    IF i > Len(order) THEN Returned
    ELSE IF order[i] \notin DOMAIN raw_data
         THEN check_options_from(allowed_capabilities, order, raw_data, i + 1)
         ELSE Then(check_option(allowed_capabilities, order[i], raw_data[order[i]]),
                   check_options_from(allowed_capabilities, order, raw_data, i + 1))

check_dangerous_options(allowed_capabilities, raw_data) ==
    check_options_from(allowed_capabilities, dangerous_options, raw_data, 1)

(***************************************************************************)
(* validate_container_request(request, raw_data): raw_data is [none, d],   *)
(* None by default; `if raw_data:` is false for None and for {}.           *)
(***************************************************************************)
validate_container_request_image_only(s, request, raw_data) ==
    Then(validate_image(s.allowed_images, request.image),
         IF ~raw_data.none /\ DOMAIN raw_data.d # {}
         THEN check_dangerous_options(s.allowed_capabilities, raw_data.d)
         ELSE Returned)

validate_container_request(s, request, raw_data) ==
    Then(validate_image(s.allowed_images, request.image),
    Then(validate_volumes(s.blocked_volume_paths, request.volumes),
         IF ~raw_data.none /\ DOMAIN raw_data.d # {}
         THEN check_dangerous_options(s.allowed_capabilities, raw_data.d)
         ELSE Returned))

(***************************************************************************)
(* app/config.py: Settings.  The defaults, and the policies an operator    *)
(* can load from the environment (prefix LIGHT_DOCKER_API_), immutable     *)
(* after load.                                                             *)
(***************************************************************************)
\* A default list without the root entry.
default_blocked_volume_paths_no_root ==
    {<<"etc">>, <<"var", "run", "docker.sock">>, <<"var", "run">>, <<"proc">>,
     <<"sys">>, <<"dev">>, <<"boot">>, <<"root">>, <<"home">>}

default_blocked_volume_paths ==
    {<<>>, <<"etc">>, <<"var", "run", "docker.sock">>, <<"var", "run">>, <<"proc">>,
     <<"sys">>, <<"dev">>, <<"boot">>, <<"root">>, <<"home">>}

DefaultSettings(instance_id) ==
    [instance_id |-> instance_id,
     allowed_images |-> <<>>,
     blocked_volume_paths |-> default_blocked_volume_paths,
     allowed_capabilities |-> {}]

(***************************************************************************)
(* The runtime and the requests in flight, idle while single functions are *)
(* exercised.                                                              *)
(***************************************************************************)
Ids == {"c1", "c2"}

Clients == {"A", "B"}

NoContainer == [exists |-> FALSE, labels |-> NoneLabels, status |-> "none"]

RuntimeEmpty == [id \in Ids |-> NoContainer]

NoneList == [none |-> TRUE, l |-> <<>>]

SomeList(l) == [none |-> FALSE, l |-> l]

\* The JSON body of a create request: the fields ContainerCreate declares
\* (those the model follows) and, in extra, the keys it does not declare.
NoBody == [image |-> <<>>, volumes |-> NoneList, labels |-> NoneLabels, extra |-> <<>>]

\* A request slot: pc is the handler's position, guard the outcome of
\* get_managed_container, gone whether the container the fetched handle
\* stands for has been removed since, acted the number of runtime actions
\* issued for this request, status the HTTP status of the response (0: none
\* yet).
IdleReq ==
    [op |-> "none", id |-> "c1", pc |-> "idle", guard |-> "none", gone |-> FALSE,
     acted |-> 0, status |-> 0, body |-> NoBody]

NoRequests == [c \in Clients |-> IdleReq]

(***************************************************************************)
(* SpecTag: _get_managed_labels and is_managed on every label map.         *)
(***************************************************************************)
InitTag ==
    /\ settings \in {DefaultSettings(i) : i \in InstanceIds}
    /\ call \in {[labels |-> l] : l \in OptLabelMaps}
    /\ ret = [tagged |-> FALSE, labels |-> EmptyDict, checked |-> FALSE, managed |-> FALSE]
    /\ containers = RuntimeEmpty
    /\ reqs = NoRequests

Call_get_managed_labels ==
    /\ ~ret.tagged
    /\ ret' = [ret EXCEPT !.tagged = TRUE,
                          !.labels = get_managed_labels(settings.instance_id, call.labels)]
    /\ UNCHANGED <<settings, call, containers, reqs>>

Call_is_managed ==
    /\ ~ret.checked
    /\ ret' = [ret EXCEPT !.checked = TRUE, !.managed = is_managed(call.labels)]
    /\ UNCHANGED <<settings, call, containers, reqs>>

NextTag == Call_get_managed_labels \/ Call_is_managed

SpecTag == InitTag /\ [][NextTag]_vars

\* C1: for every caller-supplied label map, the label map computed by
\* _get_managed_labels maps the managed key to "true" and the instance key
\* to this service's own instance id (the reserved keys take precedence).
C1_ReservedKeysTakePrecedence ==
    ret.tagged =>
        /\ MANAGED_LABEL \in DOMAIN ret.labels /\ ret.labels[MANAGED_LABEL] = "true"
        /\ INSTANCE_LABEL \in DOMAIN ret.labels
        /\ ret.labels[INSTANCE_LABEL] = settings.instance_id

\* C4: is_managed is true iff the managed key is present with the exact
\* value "true"; an absent map, an absent key or any other value gives
\* false, whatever the instance label says.
C4_IsManagedIffExactlyTrue ==
    ret.checked =>
        (ret.managed <=>
            /\ ~call.labels.none
            /\ MANAGED_LABEL \in DOMAIN call.labels.d
            /\ call.labels.d[MANAGED_LABEL] = "true")

\* C4 witness: a resource stamped by another instance is found managed, and
\* one whose managed label is "True" is found unmanaged.
C4_Witness ==
    /\ ret.checked
    /\ ret.managed
    /\ ~call.labels.none
    /\ INSTANCE_LABEL \in DOMAIN call.labels.d
    /\ call.labels.d[INSTANCE_LABEL] # settings.instance_id

(***************************************************************************)
(* SpecImage: validate_image on every image name under several allow-lists.*)
(***************************************************************************)
ImageChars == {"n", "2", ":", "/"}

Images == SeqsUpTo(ImageChars, MaxImageLen)

Nginx == <<"n">>

AllowedImageLists == {<<>>, <<Nginx>>, <<Nginx, <<"2", "/", "n">>>>, <<<<"2">>, <<"n", "2">>>>}

Pending == [done |-> FALSE, result |-> Returned]

Done(result) == [done |-> TRUE, result |-> result]

InitImage ==
    /\ settings \in {[DefaultSettings("inst-a") EXCEPT !.allowed_images = a] :
                        a \in AllowedImageLists}
    /\ call \in {[image |-> i] : i \in Images}
    /\ ret = Pending
    /\ containers = RuntimeEmpty
    /\ reqs = NoRequests

Call_validate_image ==
    /\ ~ret.done
    /\ ret' = Done(validate_image(settings.allowed_images, call.image))
    /\ UNCHANGED <<settings, call, containers, reqs>>

NextImage == Call_validate_image

SpecImage == InitImage /\ [][NextImage]_vars

\* C7: validate_image accepts every image when the allow-list is empty;
\* otherwise it accepts an image iff the image equals some entry or starts
\* with that entry followed by ":", and rejects with the image message.
C7_ImageAllowList ==
    ret.done =>
        LET allowed == Range(settings.allowed_images)
            tagOf == \E e \in allowed :
                        \/ call.image = e
                        \/ /\ Len(call.image) > Len(e)
                           /\ \A i \in 1..Len(e) : call.image[i] = e[i]
                           /\ call.image[Len(e) + 1] = ":"
        IN  /\ allowed = {} => ~ret.result.raised
            /\ allowed # {} => (~ret.result.raised <=> tagOf)
            /\ ret.result.raised =>
                   /\ ret.result.msg = MsgImage
                   /\ ret.result.status = HTTP_400_BAD_REQUEST

\* C7 witness: under the allow-list {"n"}, "n:2" has been accepted.
C7_Witness ==
    /\ ret.done
    /\ settings.allowed_images = <<Nginx>>
    /\ call.image = <<"n", ":", "2">>
    /\ ~ret.result.raised

\* C7 witness of the rejections: under a non-empty allow-list, a name that
\* only starts with an entry ("n2") has been rejected.
C7_WitnessReject ==
    /\ ret.done
    /\ settings.allowed_images = <<Nginx>>
    /\ call.image = <<"n", "2">>
    /\ ret.result.raised

(***************************************************************************)
(* SpecVolumes: validate_volumes on every dict of host paths under several *)
(* blocked-path sets.                                                      *)
(***************************************************************************)
PathNames == {"etc", "x", ".."}

HostPaths == SeqsUpTo(PathNames, MaxPathLen)

VolumeDicts == {NoneList} \cup {SomeList(l) : l \in {k \in SeqsUpTo(HostPaths, MaxVolumes) : NoDup(k)}}

BlockedSets ==
    {default_blocked_volume_paths, {<<"etc">>}, {<<"etc", "x">>},
     {<<"x", "..", "etc", ".", "x">>, <<"x", "x">>}, {}}

InitVolumes ==
    /\ settings \in {[DefaultSettings("inst-a") EXCEPT !.blocked_volume_paths = b] :
                        b \in BlockedSets}
    /\ call \in {[volumes |-> v] : v \in VolumeDicts}
    /\ ret = Pending
    /\ containers = RuntimeEmpty
    /\ reqs = NoRequests

Call_validate_volumes ==
    /\ ~ret.done
    /\ ret' = Done(validate_volumes(settings.blocked_volume_paths, call.volumes))
    /\ UNCHANGED <<settings, call, containers, reqs>>

NextVolumes == Call_validate_volumes

SpecVolumes == InitVolumes /\ [][NextVolumes]_vars

\* The canonical form of a path, stated apart from the code's resolve: the
\* components that survive, each ".." cancelling the nearest survivor
\* before it.
RECURSIVE Canon(_)
Canon(p) ==
    IF p = <<>> THEN <<>>
    ELSE LET front == Canon(SubSeq(p, 1, Len(p) - 1))
             last == p[Len(p)]
         IN  IF last = "." THEN front
             ELSE IF last = ".." THEN (IF front = <<>> THEN <<>> ELSE SubSeq(front, 1, Len(front) - 1))
             ELSE front \o <<last>>

IsDescendant(p, b) == Len(p) > Len(b) /\ \A i \in 1..Len(b) : p[i] = b[i]

Related(p, b) == p = b \/ IsDescendant(p, b) \/ IsDescendant(b, p)

\* C6: the volume check rejects the request iff some mount path P and some
\* blocked path B, both in canonical form, are equal, or P is a descendant
\* of B, or B is a descendant of P.
C6_BidirectionalContainment ==
    ret.done =>
        (ret.result.raised <=>
            /\ ~call.volumes.none
            /\ \E i \in DOMAIN call.volumes.l : \E b \in settings.blocked_volume_paths :
                   Related(Canon(call.volumes.l[i]), Canon(b)))

\* C6 witness: a request whose second mount path, written "/x/../etc",
\* is an ancestor of the blocked path "/etc/x" has been rejected.
C6_Witness ==
    /\ ret.done
    /\ settings.blocked_volume_paths = {<<"etc", "x">>}
    /\ call.volumes = SomeList(<<<<"x">>, <<"..", "etc">>>>)
    /\ ret.result.raised

\* C6 witness of acceptance: mounts related to no blocked path have passed.
C6_WitnessAccept ==
    /\ ret.done
    /\ settings.blocked_volume_paths = {<<"etc", "x">>}
    /\ call.volumes = SomeList(<<<<"x">>, <<"x", "etc">>>>)
    /\ ~ret.result.raised

(***************************************************************************)
(* SpecCaps: validate_capabilities on every cap_add list under several     *)
(* capability allow-lists.                                                 *)
(***************************************************************************)
CapChars == {"n", "N"}

Caps == NonEmptySeqsUpTo(CapChars, MaxCapLen)

CapLists == {NoneList} \cup {SomeList(l) : l \in SeqsUpTo(Caps, MaxCaps)}

AllowedCapSets == {{}, {<<"N">>}, {<<"N">>, <<"N", "N">>}, {<<"n">>, <<"N", "N">>}}

InitCaps ==
    /\ settings \in {[DefaultSettings("inst-a") EXCEPT !.allowed_capabilities = a] :
                        a \in AllowedCapSets}
    /\ call \in {[cap_add |-> c] : c \in CapLists}
    /\ ret = Pending
    /\ containers = RuntimeEmpty
    /\ reqs = NoRequests

Call_validate_capabilities ==
    /\ ~ret.done
    /\ ret' = Done(validate_capabilities(settings.allowed_capabilities, call.cap_add))
    /\ UNCHANGED <<settings, call, containers, reqs>>

NextCaps == Call_validate_capabilities

SpecCaps == InitCaps /\ [][NextCaps]_vars

\* C9: with a non-empty cap_add, an empty capability allow-list rejects
\* outright with the generic message; a non-empty allow-list accepts iff
\* every requested capability, upper-cased, is a member, and rejects with
\* the per-capability message otherwise.
C9_CapabilityAllowList ==
    (ret.done /\ ~call.cap_add.none /\ call.cap_add.l # <<>>) =>
        LET allowed == settings.allowed_capabilities
            requested == {upper(c) : c \in Range(call.cap_add.l)}
        IN  /\ allowed = {} => (ret.result.raised /\ ret.result.msg = MsgCapsNone)
            /\ allowed # {} => (~ret.result.raised <=> requested \subseteq allowed)
            /\ (allowed # {} /\ ret.result.raised) => ret.result.msg = MsgCap
            /\ ret.result.raised => ret.result.status = HTTP_400_BAD_REQUEST
            /\ MsgCap # MsgCapsNone

\* C9 witness: a lower-case request for an allowed capability has passed.
C9_Witness ==
    /\ ret.done
    /\ settings.allowed_capabilities = {<<"N">>, <<"N", "N">>}
    /\ call.cap_add = SomeList(<<<<"n">>, <<"N", "n">>>>)
    /\ ~ret.result.raised

\* C9 witness of the empty allow-list: a request has been rejected outright.
C9_WitnessEmptyAllowList ==
    /\ ret.done
    /\ settings.allowed_capabilities = {}
    /\ call.cap_add = SomeList(<<<<"N">>>>)
    /\ ret.result.raised
    /\ ret.result.msg = MsgCapsNone

(***************************************************************************)
(* SpecValidator: validate_container_request and check_dangerous_options   *)
(* on requests and raw payloads that can fail several checks at once.      *)
(***************************************************************************)
RawValues(option) ==
    CASE option = "privileged" -> <<JBool(TRUE), JBool(FALSE), JStr(<<"t", "r", "u", "e">>)>>
      [] option = "network_mode" -> <<JStr(Host), JStr(<<"n", "o", "n", "e">>)>>
      [] option = "pid_mode" -> <<JStr(Host), JStr(<<>>)>>
      [] option = "ipc_mode" -> <<JStr(Host)>>
      [] option = "cap_add" -> <<JList(<<>>), JList(<<<<"n">>>>), JList(<<<<"n">>, <<"s">>>>)>>
      [] option = "devices" -> <<JList(<<>>), JList(<<<<"d">>>>)>>
      [] option = "security_opt" -> <<JList(<<<<"o">>>>)>>
      [] OTHER -> <<JDict(<<>>), JDict(<<<<"k">>>>)>>

\* Every raw payload: each option absent (0) or holding one of its values.
RawDicts ==
    {[option \in {o \in Range(dangerous_options) : pick[o] > 0} |->
          RawValues(option)[pick[option]]] :
     pick \in {f \in [Range(dangerous_options) -> 0..3] :
                 \A o \in Range(dangerous_options) : f[o] <= Len(RawValues(o))}}

NoneRaw == [none |-> TRUE, d |-> <<>>]

SomeRaw(d) == [none |-> FALSE, d |-> d]

RawDatas == {NoneRaw} \cup {SomeRaw(d) : d \in RawDicts}

ValidatorSettings ==
    {DefaultSettings("inst-a"),
     [DefaultSettings("inst-a") EXCEPT !.allowed_images = <<Nginx>>,
                                        !.blocked_volume_paths = {<<"etc">>},
                                        !.allowed_capabilities = {<<"N">>}]}

ValidatorRequests ==
    {[image |-> i, volumes |-> v] :
        i \in {Nginx, <<"2">>},
        v \in {NoneList, SomeList(<<<<"x">>>>), SomeList(<<<<"x">>, <<"etc", ".", "x">>>>)}}

InitValidator ==
    /\ settings \in ValidatorSettings
    /\ call \in {[request |-> r, raw_data |-> d] : r \in ValidatorRequests, d \in RawDatas}
    /\ ret = [vcr |-> Pending, cdo |-> Pending]
    /\ containers = RuntimeEmpty
    /\ reqs = NoRequests

Call_validate_container_request ==
    /\ ~ret.vcr.done
    /\ ret' = [ret EXCEPT !.vcr = Done(validate_container_request(settings, call.request,
                                                                  call.raw_data))]
    /\ UNCHANGED <<settings, call, containers, reqs>>

Call_check_dangerous_options ==
    /\ ~ret.cdo.done
    /\ ~call.raw_data.none
    /\ ret' = [ret EXCEPT !.cdo = Done(check_dangerous_options(settings.allowed_capabilities,
                                                               call.raw_data.d))]
    /\ UNCHANGED <<settings, call, containers, reqs>>

NextValidator == Call_validate_container_request \/ Call_check_dangerous_options

SpecValidator == InitValidator /\ [][NextValidator]_vars

\* What the claims say of a raw payload d, stated on the payload itself.
Has(d, option) == option \in DOMAIN d

NonEmpty(d, option) == Has(d, option) /\ d[option].l # <<>>

IsHost(d, option) == Has(d, option) /\ d[option].t = "str" /\ d[option].s = Host

PrivilegedTrue(d) == Has(d, "privileged") /\ d["privileged"].t = "bool" /\ d["privileged"].b

DangerousPayload(d) ==
    \/ PrivilegedTrue(d)
    \/ IsHost(d, "network_mode") \/ IsHost(d, "pid_mode") \/ IsHost(d, "ipc_mode")
    \/ NonEmpty(d, "devices") \/ NonEmpty(d, "security_opt") \/ NonEmpty(d, "sysctls")

CapsRequested(d) == NonEmpty(d, "cap_add")

CapsRefused(allowed, d) ==
    CapsRequested(d) /\ ~({upper(c) : c \in Range(d["cap_add"].l)} \subseteq allowed)

\* C8: check_dangerous_options rejects whenever privileged is exactly true,
\* a network/pid/ipc mode is "host", or devices, security_opt or sysctls is
\* non-empty; network_mode = "host" has a message of its own; a payload
\* with none of these and no cap_add passes.
C8_DangerousOptionsRejected ==
    ret.cdo.done =>
        LET d == call.raw_data.d
            r == ret.cdo.result
        IN  /\ DangerousPayload(d) => (r.raised /\ r.status = HTTP_400_BAD_REQUEST)
            /\ (~DangerousPayload(d) /\ ~CapsRequested(d)) => ~r.raised
            /\ (IsHost(d, "network_mode") /\ ~PrivilegedTrue(d)) => r.msg = MsgNetwork
            /\ r.msg = MsgNetwork => IsHost(d, "network_mode")
            /\ MsgNetwork \notin {MsgPid, MsgIpc}

\* C8 witness: a payload whose only dangerous entry is a non-empty sysctls
\* map, next to privileged = "true" (a string) and modes other than host,
\* has been rejected.
C8_Witness ==
    /\ ret.cdo.done
    /\ ret.cdo.result.raised
    /\ ret.cdo.result.msg = MsgSysctls
    /\ Has(call.raw_data.d, "privileged") /\ call.raw_data.d["privileged"].t = "str"
    /\ Has(call.raw_data.d, "network_mode")

\* C8 witness of the pass: a payload with privileged = false, modes other
\* than host and empty lists has passed.
C8_WitnessPass ==
    /\ ret.cdo.done
    /\ ~ret.cdo.result.raised
    /\ Has(call.raw_data.d, "privileged") /\ Has(call.raw_data.d, "network_mode")
    /\ Has(call.raw_data.d, "pid_mode") /\ Has(call.raw_data.d, "devices")
    /\ Has(call.raw_data.d, "sysctls")

\* The rejection reasons of the validator, by message.
ReasonOf(result) ==
    IF ~result.raised THEN "accept"
    ELSE IF result.msg = MsgImage THEN "image-not-allowed"
    ELSE IF result.msg = MsgVolume THEN "volume-path-blocked"
    ELSE IF result.msg \in {MsgCapsNone, MsgCap} THEN "capability-not-allowed"
    ELSE "dangerous-option-used"

ImageRefused(s, request) ==
    /\ s.allowed_images # <<>>
    /\ ~\E e \in Range(s.allowed_images) :
           request.image = e \/ startswith(request.image, e \o <<":">>)

VolumesRefused(s, request) ==
    /\ ~request.volumes.none
    /\ \E p \in Range(request.volumes.l) : \E b \in s.blocked_volume_paths :
           Related(Canon(p), Canon(b))

RawChecked(raw_data) == ~raw_data.none /\ DOMAIN raw_data.d # {}

\* C10 as claimed: the rejection is that of the earliest failing check in
\* the order image, volumes, dangerous raw options, capability allow-list.
C10_FixedOrderAsClaimed ==
    ret.vcr.done =>
        ReasonOf(ret.vcr.result) =
            IF ImageRefused(settings, call.request) THEN "image-not-allowed"
            ELSE IF VolumesRefused(settings, call.request) THEN "volume-path-blocked"
            ELSE IF ~RawChecked(call.raw_data) THEN "accept"
            ELSE IF DangerousPayload(call.raw_data.d) THEN "dangerous-option-used"
            ELSE IF CapsRefused(settings.allowed_capabilities, call.raw_data.d)
                 THEN "capability-not-allowed"
            ELSE "accept"

\* C10 amended: the order is image, volumes, then privileged, network_mode,
\* pid_mode, ipc_mode, then the capability allow-list, then devices,
\* security_opt, sysctls; the rejection is that of the earliest failing
\* check in this order.
C10_FixedOrderCapsBeforeDevices ==
    ret.vcr.done =>
        LET d == call.raw_data.d
            r == ret.vcr.result
        IN  IF ImageRefused(settings, call.request) THEN r.raised /\ r.msg = MsgImage
            ELSE IF VolumesRefused(settings, call.request) THEN r.raised /\ r.msg = MsgVolume
            ELSE IF ~RawChecked(call.raw_data) THEN ~r.raised
            ELSE IF PrivilegedTrue(d) THEN r.raised /\ r.msg = MsgPrivileged
            ELSE IF IsHost(d, "network_mode") THEN r.raised /\ r.msg = MsgNetwork
            ELSE IF IsHost(d, "pid_mode") THEN r.raised /\ r.msg = MsgPid
            ELSE IF IsHost(d, "ipc_mode") THEN r.raised /\ r.msg = MsgIpc
            ELSE IF CapsRequested(d) /\ settings.allowed_capabilities = {}
                 THEN r.raised /\ r.msg = MsgCapsNone
            ELSE IF CapsRefused(settings.allowed_capabilities, d)
                 THEN r.raised /\ r.msg = MsgCap
            ELSE IF NonEmpty(d, "devices") THEN r.raised /\ r.msg = MsgDevices
            ELSE IF NonEmpty(d, "security_opt") THEN r.raised /\ r.msg = MsgSecurityOpt
            ELSE IF NonEmpty(d, "sysctls") THEN r.raised /\ r.msg = MsgSysctls
            ELSE ~r.raised

\* C10 witness: a payload with a non-empty devices list and a refused
\* cap_add, whose image and volumes pass, has been rejected for the
\* capability.
C10_Witness ==
    /\ ret.vcr.done
    /\ ~ImageRefused(settings, call.request)
    /\ ~VolumesRefused(settings, call.request)
    /\ RawChecked(call.raw_data)
    /\ NonEmpty(call.raw_data.d, "devices")
    /\ CapsRefused(settings.allowed_capabilities, call.raw_data.d)
    /\ ReasonOf(ret.vcr.result) = "capability-not-allowed"

\* C10 witness of the early stop: a request failing the image check, the
\* volume check and the raw checks has been rejected for its image.
C10_WitnessEarliest ==
    /\ ret.vcr.done
    /\ ImageRefused(settings, call.request)
    /\ VolumesRefused(settings, call.request)
    /\ RawChecked(call.raw_data) /\ DangerousPayload(call.raw_data.d)
    /\ ret.vcr.result.msg = MsgImage

(***************************************************************************)
(* The runtime behind docker-py, as the code uses it.  A container is      *)
(* [exists, labels, status]; labels are fixed at creation.                 *)
(***************************************************************************)
HTTP_200_OK == 200

HTTP_403_FORBIDDEN == 403

HTTP_404_NOT_FOUND == 404

HTTP_500_INTERNAL_SERVER_ERROR == 500

GuardedOps == {"inspect", "start", "stop", "restart", "remove", "logs", "stats"}

\* Labels of containers started outside this service: none at all, or the
\* labels of another instance of this service on the same runtime.
ExternalLabels ==
    {NoneLabels,
     SomeLabels(("app" :> "web")),
     SomeLabels((MANAGED_LABEL :> "true") @@ (INSTANCE_LABEL :> "inst-b"))}

(***************************************************************************)
(* DockerManager.get_managed_container: client.containers.get raises       *)
(* NotFound for an unknown id; the outcome is the raised status or "ok".   *)
(***************************************************************************)
get_managed_container_managed_first(cs, container_id) ==
    IF ~is_managed(cs[container_id].labels)
    THEN [outcome |-> "not-managed", status |-> HTTP_403_FORBIDDEN]
    ELSE IF ~cs[container_id].exists
    THEN [outcome |-> "not-found", status |-> HTTP_404_NOT_FOUND]
    ELSE [outcome |-> "ok", status |-> HTTP_200_OK]

get_managed_container(cs, container_id) ==
    IF ~cs[container_id].exists
    THEN [outcome |-> "not-found", status |-> HTTP_404_NOT_FOUND]
    ELSE IF ~is_managed(cs[container_id].labels)
    THEN [outcome |-> "not-managed", status |-> HTTP_403_FORBIDDEN]
    ELSE [outcome |-> "ok", status |-> HTTP_200_OK]

\* The statement after the guard is reached only if the guard returned: a
\* raised DockerClientError ends the handler.
AfterGuardSwallowed(guard) == "act"

AfterGuard(guard) == IF guard.outcome = "ok" THEN "act" ELSE "done"

(***************************************************************************)
(* The runtime action of each operation on the fetched container:          *)
(* container.reload / start / stop / restart / remove / logs / stats.      *)
(* It returns the containers after a successful call.                      *)
(***************************************************************************)
RuntimeEffect(cs, op, id) ==
    CASE op = "start" -> [cs EXCEPT ![id].status = "running"]
      [] op = "stop" -> [cs EXCEPT ![id].status = "exited"]
      [] op = "restart" -> [cs EXCEPT ![id].status = "running"]
      [] op = "remove" -> [cs EXCEPT ![id] = NoContainer]
      [] OTHER -> cs

\* Removing the container with this id leaves every handle fetched for it
\* pointing at a container that is gone, also when the id is taken again.
Invalidate(rs, id) ==
    [c \in DOMAIN rs |->
        IF rs[c].pc = "act" /\ rs[c].id = id THEN [rs[c] EXCEPT !.gone = TRUE] ELSE rs[c]]

(***************************************************************************)
(* The routes other than create: a request arrives, the manager's method   *)
(* runs the guard, then issues the runtime action.                         *)
(***************************************************************************)
Receive(c, op, id) ==
    /\ reqs[c].pc = "idle"
    /\ reqs' = [reqs EXCEPT ![c] = [IdleReq EXCEPT !.op = op, !.id = id, !.pc = "guard"]]
    /\ UNCHANGED <<settings, call, ret, containers>>

Guard(c) ==
    /\ reqs[c].pc = "guard"
    /\ LET guard == get_managed_container(containers, reqs[c].id)
       IN  reqs' = [reqs EXCEPT ![c].guard = guard.outcome,
                                ![c].pc = AfterGuard(guard),
                                ![c].status = IF guard.outcome = "ok" THEN 0 ELSE guard.status]
    /\ UNCHANGED <<settings, call, ret, containers>>

\* A manager that would hold a per-container lock from the guard to the
\* action: no action while another request holds a handle on the same id.
ActOkExclusive(c) ==
    /\ reqs[c].pc = "act"
    /\ containers[reqs[c].id].exists
    /\ ~reqs[c].gone
    /\ \A o \in DOMAIN reqs \ {c} : ~(reqs[o].pc = "act" /\ reqs[o].id = reqs[c].id)
    /\ containers' = RuntimeEffect(containers, reqs[c].op, reqs[c].id)
    /\ LET answered == [reqs EXCEPT ![c].acted = @ + 1, ![c].pc = "done",
                                     ![c].status = HTTP_200_OK]
       IN  reqs' = IF reqs[c].op = "remove" THEN Invalidate(answered, reqs[c].id)
                   ELSE answered
    /\ UNCHANGED <<settings, call, ret>>

\* The runtime action succeeds.
ActOk(c) ==
    /\ reqs[c].pc = "act"
    /\ containers[reqs[c].id].exists
    /\ ~reqs[c].gone
    /\ containers' = RuntimeEffect(containers, reqs[c].op, reqs[c].id)
    /\ LET answered == [reqs EXCEPT ![c].acted = @ + 1, ![c].pc = "done",
                                     ![c].status = HTTP_200_OK]
       IN  reqs' = IF reqs[c].op = "remove" THEN Invalidate(answered, reqs[c].id)
                   ELSE answered
    /\ UNCHANGED <<settings, call, ret>>

\* A handler that would issue the action again after an APIError.
ActFailsRetried(c) ==
    /\ reqs[c].pc = "act"
    /\ reqs[c].acted < 2
    /\ reqs' = [reqs EXCEPT ![c].acted = @ + 1]
    /\ UNCHANGED <<settings, call, ret, containers>>

\* The runtime action raises an APIError (NotFound, a subclass, when the
\* container is gone): DockerClientError with status 500, or for inspect
\* the uncaught exception, a 500 as well.
ActFails(c) ==
    /\ reqs[c].pc = "act"
    /\ reqs' = [reqs EXCEPT ![c].acted = @ + 1, ![c].pc = "done",
                             ![c].status = HTTP_500_INTERNAL_SERVER_ERROR]
    /\ UNCHANGED <<settings, call, ret, containers>>

Respond(c) ==
    /\ reqs[c].pc = "done"
    /\ reqs' = [reqs EXCEPT ![c] = IdleReq]
    /\ UNCHANGED <<settings, call, ret, containers>>

\* The runtime is shared: containers come and go outside this service.
ExternalRun(id, labels) ==
    /\ ~containers[id].exists
    /\ containers' = [containers EXCEPT ![id] = [exists |-> TRUE, labels |-> labels,
                                                  status |-> "running"]]
    /\ UNCHANGED <<settings, call, ret, reqs>>

ExternalRemove(id) ==
    /\ containers[id].exists
    /\ containers' = [containers EXCEPT ![id] = NoContainer]
    /\ reqs' = Invalidate(reqs, id)
    /\ UNCHANGED <<settings, call, ret>>

\* Containers this service created earlier.
OwnLabels == SomeLabels(get_managed_labels("inst-a", NoneLabels))

Init ==
    /\ settings = DefaultSettings("inst-a")
    /\ call = <<>>
    /\ ret = <<>>
    /\ containers \in [Ids -> {NoContainer,
                                [exists |-> TRUE, labels |-> OwnLabels, status |-> "created"]}]
    /\ reqs = NoRequests

Next ==
    \/ \E c \in Clients, op \in GuardedOps, id \in Ids : Receive(c, op, id)
    \/ \E c \in Clients : Guard(c)
    \/ \E c \in Clients : ActOk(c)
    \/ \E c \in Clients : ActFails(c)
    \/ \E c \in Clients : Respond(c)
    \/ \E id \in Ids, labels \in ExternalLabels : ExternalRun(id, labels)
    \/ \E id \in Ids : ExternalRemove(id)

Spec == Init /\ [][Next]_vars

\* The step of request c that issues its runtime action.
ActsNow(c) == reqs'[c].acted > reqs[c].acted

\* The step of request c that runs the guard.
GuardsNow(c) == reqs[c].pc = "guard" /\ reqs'[c].pc # "guard"

\* C2: the runtime action of a non-create request is issued only after the
\* guard returned the resource for that same request and id; when the
\* guard fails, the request ends with no runtime action, and its steps
\* leave the runtime's containers unchanged.
C2_GuardBeforeAction ==
    /\ [](\A c \in Clients :
            /\ reqs[c].acted > 0 => reqs[c].guard = "ok"
            /\ reqs[c].guard \in {"not-found", "not-managed"} =>
                   (reqs[c].acted = 0 /\ reqs[c].pc = "done")
            /\ reqs[c].pc = "act" => reqs[c].guard = "ok")
    /\ [][\A c \in Clients :
            /\ ActsNow(c) =>
                   /\ reqs[c].guard = "ok" /\ reqs[c].pc = "act"
                   /\ reqs'[c].id = reqs[c].id /\ reqs'[c].op = reqs[c].op
            /\ (GuardsNow(c) /\ reqs'[c].guard # "ok") => containers' = containers
            /\ (reqs[c].guard \in {"not-found", "not-managed"} /\ reqs'[c] # reqs[c]) =>
                   (containers' = containers /\ reqs'[c].pc = "idle")]_vars

\* C2 witness: a remove request on an unmanaged container has ended with
\* 403 and no runtime action, the container still there.
C2_Witness ==
    \E c \in Clients :
        /\ reqs[c].op = "remove" /\ reqs[c].pc = "done"
        /\ reqs[c].guard = "not-managed" /\ reqs[c].acted = 0
        /\ containers[reqs[c].id].exists

\* C2 witness of the action: a stop request has acted after its guard
\* returned the container.
C2_WitnessActed ==
    \E c \in Clients :
        /\ reqs[c].op = "stop" /\ reqs[c].pc = "done" /\ reqs[c].acted = 1
        /\ reqs[c].guard = "ok" /\ reqs[c].status = HTTP_200_OK

\* C3: the guard has exactly three outcomes: not-found (404) if the runtime
\* does not know the id; else not-managed (403) if the fetched container's
\* managed label is not "true"; else the container is returned.
C3_GuardThreeOutcomes ==
    [][\A c \in Clients : GuardsNow(c) =>
        LET target == containers[reqs[c].id]
            managed == /\ ~target.labels.none
                       /\ MANAGED_LABEL \in DOMAIN target.labels.d
                       /\ target.labels.d[MANAGED_LABEL] = "true"
        IN  IF ~target.exists
            THEN /\ reqs'[c].guard = "not-found"
                 /\ reqs'[c].status = HTTP_404_NOT_FOUND /\ reqs'[c].pc = "done"
            ELSE IF ~managed
            THEN /\ reqs'[c].guard = "not-managed"
                 /\ reqs'[c].status = HTTP_403_FORBIDDEN /\ reqs'[c].pc = "done"
            ELSE reqs'[c].guard = "ok" /\ reqs'[c].pc = "act"]_vars

\* C3 witness: the three outcomes have all been produced, two of them side
\* by side.
C3_Witness ==
    /\ reqs["A"].guard = "not-found" /\ reqs["A"].status = HTTP_404_NOT_FOUND
    /\ reqs["B"].guard = "not-managed" /\ reqs["B"].status = HTTP_403_FORBIDDEN

\* C3 witness of the returned container: a container stamped by another
\* instance has been returned by the guard.
C3_WitnessReturned ==
    \E c \in Clients :
        /\ reqs[c].guard = "ok" /\ reqs[c].pc = "act" /\ ~reqs[c].gone
        /\ containers[reqs[c].id].labels.d[INSTANCE_LABEL] = "inst-b"

(***************************************************************************)
(* POST /containers/create.  FastAPI parses the body into ContainerCreate  *)
(* (model_config extra = forbid: a key the model does not declare is a 422 *)
(* before the handler runs); the handler calls validate_container_request  *)
(* with the parsed request alone, then DockerManager.create_container.     *)
(***************************************************************************)
HTTP_422_UNPROCESSABLE_ENTITY == 422

\* ContainerCreate with extra = forbid: the parse fails iff the body holds
\* a key that is no field of the model.
ParseAccepts(body) == DOMAIN body.extra = {}

\* The raw_data argument of the route's call validate_container_request(
\* request): absent, hence the default None.
route_raw_data(body) == NoneRaw

\* DockerManager.create_container: the labels handed to containers.create.
create_labels(instance_id, request_labels) == get_managed_labels(instance_id, request_labels)

CreateClients == {"A"}

ReceiveCreate(c, body) ==
    /\ reqs[c].pc = "idle"
    /\ reqs' = [reqs EXCEPT ![c] = [IdleReq EXCEPT !.op = "create", !.pc = "parse",
                                                    !.body = body]]
    /\ UNCHANGED <<settings, call, ret, containers>>

ParseBody(c) ==
    /\ reqs[c].pc = "parse"
    /\ reqs' = [reqs EXCEPT
                  ![c].pc = IF ParseAccepts(reqs[c].body) THEN "validate" ELSE "done",
                  ![c].status = IF ParseAccepts(reqs[c].body) THEN 0
                                ELSE HTTP_422_UNPROCESSABLE_ENTITY]
    /\ UNCHANGED <<settings, call, ret, containers>>

ValidateRequest(c) ==
    /\ reqs[c].pc = "validate"
    /\ LET body == reqs[c].body
           result == validate_container_request(
                         settings, [image |-> body.image, volumes |-> body.volumes],
                         route_raw_data(body))
       IN  reqs' = [reqs EXCEPT ![c].pc = IF result.raised THEN "done" ELSE "create",
                                ![c].status = IF result.raised THEN result.status ELSE 0]
    /\ UNCHANGED <<settings, call, ret, containers>>

\* containers.create returns: a new container, in state "created", under a
\* fresh id and with the labels the manager computed.
RuntimeCreateOk(c, id) ==
    /\ reqs[c].pc = "create"
    /\ ~containers[id].exists
    /\ containers' = [containers EXCEPT ![id] =
                         [exists |-> TRUE,
                          labels |-> SomeLabels(create_labels(settings.instance_id,
                                                              reqs[c].body.labels)),
                          status |-> "created"]]
    /\ reqs' = [reqs EXCEPT ![c].acted = @ + 1, ![c].pc = "done", ![c].id = id,
                             ![c].status = HTTP_200_OK]
    /\ UNCHANGED <<settings, call, ret>>

\* containers.create raises ImageNotFound (404) or another APIError (500).
RuntimeCreateFails(c, status) ==
    /\ reqs[c].pc = "create"
    /\ reqs' = [reqs EXCEPT ![c].acted = @ + 1, ![c].pc = "done", ![c].status = status]
    /\ UNCHANGED <<settings, call, ret, containers>>

SingleRaw(option, value) == [o \in {option} |-> value]

CreateExtras ==
    {<<>>,
     SingleRaw("privileged", JBool(TRUE)), SingleRaw("privileged", JBool(FALSE)),
     SingleRaw("network_mode", JStr(Host)), SingleRaw("pid_mode", JStr(Host)),
     SingleRaw("ipc_mode", JStr(Host)), SingleRaw("devices", JList(<<<<"d">>>>)),
     SingleRaw("devices", JList(<<>>)), SingleRaw("security_opt", JList(<<<<"o">>>>)),
     SingleRaw("sysctls", JDict(<<<<"k">>>>)), SingleRaw("cap_add", JList(<<<<"n">>>>)),
     SingleRaw("cap_add", JList(<<<<"s">>>>))}

CreateBodies ==
    {[image |-> i, volumes |-> v, labels |-> l, extra |-> e] :
        i \in {Nginx, <<"2">>},
        v \in {NoneList, SomeList(<<<<"x">>>>), SomeList(<<<<"etc", "x">>>>)},
        l \in {NoneLabels, SomeLabels(("app" :> "web")),
                SomeLabels((MANAGED_LABEL :> "false") @@ (INSTANCE_LABEL :> "intruder"))},
        e \in CreateExtras}

InitCreate ==
    /\ settings \in ValidatorSettings
    /\ call = <<>>
    /\ ret = <<>>
    /\ containers = RuntimeEmpty
    /\ reqs = NoRequests

NextCreate ==
    \/ \E c \in CreateClients, body \in CreateBodies : ReceiveCreate(c, body)
    \/ \E c \in CreateClients : ParseBody(c)
    \/ \E c \in CreateClients : ValidateRequest(c)
    \/ \E c \in CreateClients, id \in Ids : RuntimeCreateOk(c, id)
    \/ \E c \in CreateClients :
          \E status \in {HTTP_404_NOT_FOUND, HTTP_500_INTERNAL_SERVER_ERROR} :
             RuntimeCreateFails(c, status)
    \/ \E c \in CreateClients : Respond(c)

SpecCreate == InitCreate /\ [][NextCreate]_vars

\* C5: the create endpoint applies the full validator to the incoming
\* payload before the runtime is invoked: a payload that sets privileged =
\* true, a host network/pid/ipc mode, non-empty devices, security_opt or
\* sysctls, or a refused cap_add never reaches the runtime create call, and
\* is ended by the validator's rejection (400).
C5_FullValidatorAtCreate ==
    \A c \in CreateClients :
        LET extra == reqs[c].body.extra
            refused == \/ DangerousPayload(extra)
                       \/ CapsRefused(settings.allowed_capabilities, extra)
        IN  (reqs[c].op = "create" /\ refused) =>
                /\ reqs[c].acted = 0
                /\ reqs[c].pc = "done" => reqs[c].status = HTTP_400_BAD_REQUEST

\* The step of request c in which validate_container_request raises.
RejectsNow(c) ==
    reqs[c].pc = "validate" /\ reqs'[c].pc = "done"

\* What the validator, called as the route calls it, refuses: the image or
\* a volume of the parsed request.
ValidatorRefuses(s, body) ==
    ImageRefused(s, body) \/ VolumesRefused(s, body)

\* C11: a create request that the validator rejects never reaches the
\* runtime: the runtime create call is issued only from a request whose
\* validation returned, and a rejection ends the request with a 400-class
\* status, no runtime call, and the containers as they were.
C11_RejectedNeverReachesRuntime ==
    /\ [](\A c \in CreateClients :
            /\ (reqs[c].op = "create" /\ ValidatorRefuses(settings, reqs[c].body)) =>
                   /\ reqs[c].acted = 0
                   /\ reqs[c].pc # "create"
                   /\ reqs[c].pc = "done" =>
                          /\ reqs[c].status \in 400..499
                          /\ ParseAccepts(reqs[c].body) =>
                                 reqs[c].status = HTTP_400_BAD_REQUEST
            /\ (reqs[c].op = "create" /\ reqs[c].acted > 0) =>
                   (ParseAccepts(reqs[c].body) /\ ~ValidatorRefuses(settings, reqs[c].body)))
    /\ [][\A c \in CreateClients :
            /\ RejectsNow(c) =>
                   /\ containers' = containers
                   /\ reqs'[c].acted = 0
                   /\ reqs'[c].status = HTTP_400_BAD_REQUEST
            /\ (reqs[c].op = "create" /\ ActsNow(c)) => reqs[c].pc = "create"]_vars

\* C11 witness: under the default policy a request mounting a host path
\* has been rejected with 400, no runtime call made and no container
\* created.
C11_Witness ==
    \E c \in CreateClients :
        /\ settings.blocked_volume_paths = default_blocked_volume_paths
        /\ reqs[c].op = "create" /\ reqs[c].pc = "done"
        /\ ~reqs[c].body.volumes.none
        /\ reqs[c].status = HTTP_400_BAD_REQUEST /\ reqs[c].acted = 0
        /\ \A id \in Ids : ~containers[id].exists

\* C11 witness of the accepted request: a request whose validation returned
\* has reached the runtime and created a container.
C11_WitnessAccepted ==
    \E c \in CreateClients :
        /\ reqs[c].op = "create" /\ reqs[c].pc = "done" /\ reqs[c].acted = 1
        /\ reqs[c].status = HTTP_200_OK /\ containers[reqs[c].id].exists

(***************************************************************************)
(* The service as a whole on a runtime of its own: the create route and    *)
(* the guarded routes, served one request after the other, on containers   *)
(* that all come from the create route.  The runtime may still lose a      *)
(* container at any time.                                                  *)
(***************************************************************************)
\* DockerManager.list_managed: the runtime's label filter MANAGED_LABEL=true.
list_managed(cs) ==
    {id \in Ids :
        /\ cs[id].exists
        /\ ~cs[id].labels.none
        /\ MANAGED_LABEL \in DOMAIN cs[id].labels.d
        /\ cs[id].labels.d[MANAGED_LABEL] = "true"}

ServiceClients == {"A"}

ServiceBodies ==
    {body \in CreateBodies :
        /\ body.image = Nginx
        /\ body.volumes \in {NoneList, SomeList(<<<<"x">>>>)}
        /\ body.extra \in {<<>>, SingleRaw("privileged", JBool(TRUE))}}

InitService ==
    /\ settings \in ValidatorSettings
    /\ call = <<>>
    /\ ret = <<>>
    /\ containers = RuntimeEmpty
    /\ reqs = NoRequests

NextService ==
    \/ \E c \in ServiceClients, body \in ServiceBodies : ReceiveCreate(c, body)
    \/ \E c \in ServiceClients : ParseBody(c)
    \/ \E c \in ServiceClients : ValidateRequest(c)
    \/ \E c \in ServiceClients, id \in Ids : RuntimeCreateOk(c, id)
    \/ \E c \in ServiceClients :
          \E status \in {HTTP_404_NOT_FOUND, HTTP_500_INTERNAL_SERVER_ERROR} :
             RuntimeCreateFails(c, status)
    \/ \E c \in ServiceClients, op \in GuardedOps, id \in Ids : Receive(c, op, id)
    \/ \E c \in ServiceClients : Guard(c)
    \/ \E c \in ServiceClients : ActOk(c)
    \/ \E c \in ServiceClients : ActFails(c)
    \/ \E c \in ServiceClients : Respond(c)
    \/ \E id \in Ids : ExternalRemove(id)

SpecService == InitService /\ [][NextService]_vars

\* C12: every container the create route has made carries the managed
\* label with the value "true", whatever labels the caller supplied; so
\* while it exists, no guard on it ends as not-managed (403), and it is in
\* the managed list.
C12_CreatedIsManaged ==
    /\ \A id \in Ids :
          containers[id].exists =>
              /\ is_managed(containers[id].labels)
              /\ get_managed_container(containers, id).outcome = "ok"
              /\ id \in list_managed(containers)
    /\ \A c \in ServiceClients : reqs[c].guard # "not-managed"

\* The operations whose runtime action changes the container.
ChangingOps == {"start", "stop", "restart", "remove"}

\* C16: a runtime failure is surfaced at once and never retried: a request
\* issues its runtime action at most once and is finished by it; an action
\* on a container that is gone ends with 500, a failed create with 500 or
\* 404, success is reported only when the action took effect, and after
\* the action the request only returns its response.
C16_FailureSurfacedNoRetry ==
    /\ [](\A c \in ServiceClients :
            /\ reqs[c].acted <= 1
            /\ reqs[c].acted = 1 => reqs[c].pc = "done"
            /\ (reqs[c].acted = 1 /\ reqs[c].op = "create") =>
                   reqs[c].status \in {HTTP_200_OK, HTTP_404_NOT_FOUND,
                                       HTTP_500_INTERNAL_SERVER_ERROR}
            /\ (reqs[c].acted = 1 /\ reqs[c].op # "create") =>
                   reqs[c].status \in {HTTP_200_OK, HTTP_500_INTERNAL_SERVER_ERROR})
    /\ [][\A c \in ServiceClients :
            /\ ActsNow(c) =>
                   /\ reqs[c].acted = 0 /\ reqs'[c].acted = 1 /\ reqs'[c].pc = "done"
                   /\ (reqs[c].op # "create" /\
                         (reqs[c].gone \/ ~containers[reqs[c].id].exists)) =>
                          /\ reqs'[c].status = HTTP_500_INTERNAL_SERVER_ERROR
                          /\ containers' = containers
                   /\ reqs'[c].status # HTTP_200_OK => containers' = containers
                   /\ (reqs'[c].status = HTTP_200_OK /\ reqs[c].op \in ChangingOps) =>
                          containers' = RuntimeEffect(containers, reqs[c].op, reqs[c].id)
                   /\ (reqs'[c].status = HTTP_200_OK /\ reqs[c].op = "create") =>
                          /\ ~containers[reqs'[c].id].exists
                          /\ containers'[reqs'[c].id].exists
            /\ (reqs[c].acted = 1 /\ reqs'[c] # reqs[c]) => reqs'[c] = IdleReq]_vars

\* C16 witness: a stop request whose container was removed after the guard
\* has issued its action once and ended with 500.
C16_Witness ==
    \E c \in ServiceClients :
        /\ reqs[c].op = "stop" /\ reqs[c].pc = "done" /\ reqs[c].gone
        /\ reqs[c].acted = 1 /\ reqs[c].status = HTTP_500_INTERNAL_SERVER_ERROR

\* C16 witness for create: the runtime refused the image and the request
\* ended with 404 after one call, no container made.
C16_WitnessCreate ==
    \E c \in ServiceClients :
        /\ reqs[c].op = "create" /\ reqs[c].pc = "done" /\ reqs[c].acted = 1
        /\ reqs[c].status = HTTP_404_NOT_FOUND
        /\ \A id \in Ids : ~containers[id].exists

(***************************************************************************)
(* DockerManager.get_stats: the translation of the runtime's stats         *)
(* snapshot.  A counter of the snapshot is present or absent; percpu_usage *)
(* is kept by its length.  A float is the exact fraction num/den; the      *)
(* response carries the percents rounded to two decimals, in hundredths.   *)
(***************************************************************************)
MaxCounter == 2

MaxCpus == 2

Absent == [has |-> FALSE, v |-> 0]

Present(n) == [has |-> TRUE, v |-> n]

\* dict.get(key, default) on the innermost dict; a missing outer dict reads
\* as {} and so gives the default as well.
GetOr(field, default) == IF field.has THEN field.v ELSE default

ZeroDivisionError == [raised |-> TRUE, num |-> 0, den |-> 1]

Float(n) == [raised |-> FALSE, num |-> n, den |-> 1]

\* a / b on ints.
TrueDiv(a, b) ==
    IF b = 0 THEN ZeroDivisionError
    ELSE IF b < 0 THEN [raised |-> FALSE, num |-> 0 - a, den |-> 0 - b]
    ELSE [raised |-> FALSE, num |-> a, den |-> b]

\* q * n
Times(q, n) == [q EXCEPT !.num = @ * n]

\* round(q, 2), in hundredths: the nearest hundredth, a tie to the even one.
round2(q) ==
    LET n == q.num * 100
        fl == n \div q.den
        r == n % q.den
    IN  IF q.raised THEN 0
        ELSE IF 2 * r < q.den THEN fl
        ELSE IF 2 * r > q.den THEN fl + 1
        ELSE IF fl % 2 = 0 THEN fl ELSE fl + 1

cpu_delta(stats) == GetOr(stats.total_usage, 0) - GetOr(stats.pre_total_usage, 0)

system_delta(stats) == GetOr(stats.system_cpu_usage, 0) - GetOr(stats.pre_system_cpu_usage, 0)

\* len(percpu_usage), [1] when it is absent.
num_cpus(stats) == GetOr(stats.percpu_usage, 1)

cpu_percent_cpu_delta_only(stats) ==
    IF cpu_delta(stats) > 0
    THEN Times(Times(TrueDiv(cpu_delta(stats), system_delta(stats)), num_cpus(stats)), 100)
    ELSE Float(0)

cpu_percent(stats) ==
    IF system_delta(stats) > 0 /\ cpu_delta(stats) > 0
    THEN Times(Times(TrueDiv(cpu_delta(stats), system_delta(stats)), num_cpus(stats)), 100)
    ELSE Float(0)

memory_percent(stats) ==
    LET memory_usage == GetOr(stats.usage, 0)
        memory_limit == GetOr(stats.limit, 1)
    IN  IF memory_limit > 0 THEN Times(TrueDiv(memory_usage, memory_limit), 100)
        ELSE Float(0)

\* The response; `raised` stands for an exception of the translation.
get_stats(stats) ==
    [raised |-> cpu_percent(stats).raised \/ memory_percent(stats).raised,
     cpu_percent |-> round2(cpu_percent(stats)),
     memory_usage |-> GetOr(stats.usage, 0),
     memory_limit |-> GetOr(stats.limit, 1),
     memory_percent |-> round2(memory_percent(stats))]

OptCounters == {Absent} \cup {Present(n) : n \in 0..MaxCounter}

OptCpuLists == {Absent} \cup {Present(n) : n \in 0..MaxCpus}

StatsSnapshots ==
    [total_usage : OptCounters, pre_total_usage : OptCounters,
     system_cpu_usage : OptCounters, pre_system_cpu_usage : OptCounters,
     percpu_usage : OptCpuLists, usage : OptCounters, limit : OptCounters]

NoStats == [done |-> FALSE, stats |-> get_stats([f \in {"total_usage", "pre_total_usage",
                "system_cpu_usage", "pre_system_cpu_usage", "percpu_usage", "usage",
                "limit"} |-> Absent])]

InitStats ==
    /\ settings = DefaultSettings("inst-a")
    /\ call \in StatsSnapshots
    /\ ret = NoStats
    /\ containers = RuntimeEmpty
    /\ reqs = NoRequests

Call_get_stats ==
    /\ ~ret.done
    /\ ret' = [done |-> TRUE, stats |-> get_stats(call)]
    /\ UNCHANGED <<settings, call, containers, reqs>>

NextStats == Call_get_stats

SpecStats == InitStats /\ [][NextStats]_vars

\* The distance of x from zero.
Abs(x) == IF x < 0 THEN 0 - x ELSE x

\* h hundredths is the fraction a * 100 / b (b > 0) to two decimals.
IsPercentOf(h, a, b) == 2 * Abs(h * b - a * 10000) <= b

\* C13: the reported memory percent is usage / limit * 100 when the
\* snapshot has a positive limit, and 0 when the limit is zero or absent,
\* for every usage.
C13_MemoryPercentGuarded ==
    ret.done =>
        LET usage == IF call.usage.has THEN call.usage.v ELSE 0
        IN  /\ (call.limit.has /\ call.limit.v > 0) =>
                   IsPercentOf(ret.stats.memory_percent, usage, call.limit.v)
            /\ (~call.limit.has \/ call.limit.v = 0) => ret.stats.memory_percent = 0

\* C14: the reported CPU percent is 0 whenever the cpu-usage delta or the
\* system-usage delta (missing counters read as 0) is zero or negative,
\* and otherwise (cpuDelta / systemDelta) * numCpus * 100, to the two
\* decimals of the response; it is never negative, and the translation
\* never divides by zero.
C14_CpuPercentGuarded ==
    ret.done =>
        LET counter(f) == IF f.has THEN f.v ELSE 0
            cpuDelta == counter(call.total_usage) - counter(call.pre_total_usage)
            systemDelta == counter(call.system_cpu_usage)
                              - counter(call.pre_system_cpu_usage)
            numCpus == IF call.percpu_usage.has THEN call.percpu_usage.v ELSE 1
        IN  /\ ~ret.stats.raised
            /\ ret.stats.cpu_percent >= 0
            /\ (cpuDelta <= 0 \/ systemDelta <= 0) => ret.stats.cpu_percent = 0
            /\ (cpuDelta > 0 /\ systemDelta > 0) =>
                   IsPercentOf(ret.stats.cpu_percent, cpuDelta * numCpus, systemDelta)

\* C14 witness: cpu delta 1, system delta 2, two CPUs: 100.00 percent.
C14_Witness ==
    /\ ret.done
    /\ call.total_usage = Present(2) /\ call.pre_total_usage = Present(1)
    /\ call.system_cpu_usage = Present(2) /\ call.pre_system_cpu_usage = Absent
    /\ call.percpu_usage = Present(2)
    /\ ret.stats.cpu_percent = 10000

\* C14 witness of the guard: a positive cpu delta with a system delta of
\* zero, and one with a negative system delta, both reported as 0.
C14_WitnessZero ==
    /\ ret.done
    /\ call.total_usage = Present(2) /\ call.pre_total_usage = Present(0)
    /\ call.system_cpu_usage = Present(1) /\ call.pre_system_cpu_usage \in {Present(1), Present(2)}
    /\ ret.stats.cpu_percent = 0 /\ ~ret.stats.raised

\* Request b holds an approved handle for a remove of the container that
\* request a holds an approved handle on.
RemovesUnder(a, b) ==
    /\ a # b
    /\ reqs[a].pc = "act" /\ reqs[b].pc = "act"
    /\ reqs[b].op = "remove" /\ reqs[b].id = reqs[a].id
    /\ ~reqs[b].gone /\ containers[reqs[b].id].exists

\* C15: the guard and the action that follows it are not atomic and no
\* lock joins them: while request a holds the container its guard
\* approved, a remove by another request on the same id, and a removal
\* from outside, can still take place; that step leaves a between guard
\* and action with a container that is gone, and a's action is then still
\* issued and cannot succeed.
C15_NoLockBetweenGuardAndAction ==
    /\ [](\A a \in Clients :
            reqs[a].pc = "act" =>
                /\ containers[reqs[a].id].exists => ENABLED ExternalRemove(reqs[a].id)
                /\ \A b \in Clients : RemovesUnder(a, b) => ENABLED ActOk(b)
                /\ ENABLED ActFails(a)
                /\ reqs[a].gone => ~ENABLED ActOk(a))
    /\ [][\A a \in Clients :
            (/\ reqs[a].pc = "act" /\ ~reqs[a].gone
             /\ reqs'[a].acted = reqs[a].acted
             /\ containers[reqs[a].id].exists /\ ~containers'[reqs[a].id].exists) =>
                (reqs'[a].pc = "act" /\ reqs'[a].gone /\ reqs'[a].guard = "ok")]_vars

\* C15 witness: A's guard approved the container, B removed it with
\* success, and A's action was then issued on the container that was gone.
C15_Witness ==
    /\ reqs["A"].guard = "ok" /\ reqs["A"].gone
    /\ reqs["A"].acted = 1 /\ reqs["A"].pc = "done"
    /\ reqs["A"].status = HTTP_500_INTERNAL_SERVER_ERROR
    /\ reqs["B"].op = "remove" /\ reqs["B"].id = reqs["A"].id
    /\ reqs["B"].pc = "done" /\ reqs["B"].acted = 1 /\ reqs["B"].status = HTTP_200_OK

\* C15 witness of the replacement: A's action was issued after its
\* container was removed and an unmanaged one took the same id.
C15_WitnessReplaced ==
    /\ reqs["A"].guard = "ok" /\ reqs["A"].gone /\ reqs["A"].acted = 1
    /\ containers[reqs["A"].id].exists
    /\ ~is_managed(containers[reqs["A"].id].labels)

\* C17: the default blocked paths contain the root "/", of which every
\* host path is a descendant (or which it equals): under the default
\* policy the volume check rejects, with the volume message and 400, every
\* request that has at least one volume binding, and accepts exactly the
\* requests that have none.
C17_DefaultsRejectEveryVolume ==
    (ret.done /\ settings.blocked_volume_paths = default_blocked_volume_paths) =>
        LET bindings == IF call.volumes.none THEN {} ELSE DOMAIN call.volumes.l
        IN  /\ ret.result.raised <=> bindings # {}
            /\ ret.result.raised =>
                   /\ ret.result.msg = MsgVolume
                   /\ ret.result.status = HTTP_400_BAD_REQUEST

\* C17 witness: under the defaults, a request mounting "/x/x", a path
\* under none of the named system directories, has been rejected.
C17_Witness ==
    /\ ret.done
    /\ settings.blocked_volume_paths = default_blocked_volume_paths
    /\ call.volumes = SomeList(<<<<"x", "x">>>>)
    /\ ret.result.raised /\ ret.result.msg = MsgVolume

\* C17 witness of acceptance: under the defaults, a request with an empty
\* volumes dict has passed.
C17_WitnessNoVolumes ==
    /\ ret.done
    /\ settings.blocked_volume_paths = default_blocked_volume_paths
    /\ call.volumes = SomeList(<<>>)
    /\ ~ret.result.raised

====
